---- MODULE Spec2Model ----
(***************************************************************************)
(* Radio-t chat translation bot: the /event handler, Translate, the        *)
(* once-gated language catalog (isDirection / initLanguages / getLangs)    *)
(* and the timeout-racing request executor of translate.go.                *)
(*                                                                         *)
(* Go strings are modelled as sequences of one-character strings, so that  *)
(* the regexp match, Trim, SplitN, sort.Strings and sort.SearchStrings are *)
(* computed as the code computes them.                                     *)
(***************************************************************************)
EXTENDS Integers, Sequences, FiniteSets, TLC

\* ------------------------------------------------------------------ bounds
\* Number of concurrent callers (one /event request or Translate call each).
NCallers == 2

\* Longest continuation after the direction-shaped token in the texts of SpecSerial.
MaxTail == 4

\* Longest storage list of SpecCatalog.
MaxList == 3

Callers == 1..NCallers

\* ------------------------------------------------------------------ strings
\* [a-z] of the langDirect pattern.
Lower ==
  {"a","b","c","d","e","f","g","h","i","j","k","l","m",
   "n","o","p","q","r","s","t","u","v","w","x","y","z"}

\* Byte order of the characters the model uses (strings compare bytewise).
Code(ch) ==
  CASE ch = " " -> 32
    [] ch = "(" -> 40
    [] ch = ")" -> 41
    [] ch = "-" -> 45
    [] ch = "[" -> 91
    [] ch = "]" -> 93
    [] ch = "\n" -> 10
    [] ch = "a" -> 97  [] ch = "b" -> 98  [] ch = "c" -> 99  [] ch = "d" -> 100
    [] ch = "e" -> 101 [] ch = "f" -> 102 [] ch = "g" -> 103 [] ch = "h" -> 104
    [] ch = "i" -> 105 [] ch = "j" -> 106 [] ch = "k" -> 107 [] ch = "l" -> 108
    [] ch = "m" -> 109 [] ch = "n" -> 110 [] ch = "o" -> 111 [] ch = "p" -> 112
    [] ch = "q" -> 113 [] ch = "r" -> 114 [] ch = "s" -> 115 [] ch = "t" -> 116
    [] ch = "u" -> 117 [] ch = "v" -> 118 [] ch = "w" -> 119 [] ch = "x" -> 120
    [] ch = "y" -> 121 [] ch = "z" -> 122

\* Go's string comparison a < b.
RECURSIVE StrLess(_, _)
StrLess(a, b) ==
  IF b = <<>> THEN FALSE
  ELSE IF a = <<>> THEN TRUE
  ELSE IF Code(Head(a)) < Code(Head(b)) THEN TRUE
  ELSE IF Code(Head(a)) > Code(Head(b)) THEN FALSE
  ELSE StrLess(Tail(a), Tail(b))

\* strings.Trim(s, " "): all leading and all trailing spaces are removed.
RECURSIVE TrimLeft(_)
TrimLeft(s) ==
  IF s # <<>> /\ Head(s) = " " THEN TrimLeft(Tail(s)) ELSE s

RECURSIVE TrimRight(_)
TrimRight(s) ==
  IF s # <<>> /\ s[Len(s)] = " " THEN TrimRight(SubSeq(s, 1, Len(s) - 1)) ELSE s

\* (mutant) a trim that removes one leading space only.
TrimOneLeading(s) == IF s # <<>> /\ Head(s) = " " THEN Tail(s) ELSE s

Trim(s) == TrimRight(TrimLeft(s))

\* strings.SplitN(s, " ", 2): cut at the first space, at most two elements.
SplitN2(s) ==
  IF \E k \in 1..Len(s) : s[k] = " "
  THEN LET k == CHOOSE i \in 1..Len(s) :
                  s[i] = " " /\ \A j \in 1..(i - 1) : s[j] # " "
       IN  <<SubSeq(s, 1, k - 1), SubSeq(s, k + 1, Len(s))>>
  ELSE <<s>>

\* strings.Join(elems, sep)
RECURSIVE Join(_, _)
Join(elems, sep) ==
  IF elems = <<>> THEN <<>>
  ELSE IF Len(elems) = 1 THEN elems[1]
  ELSE elems[1] \o sep \o Join(Tail(elems), sep)

\* ------------------------------------------------------------------ langDirect
\* n letters of [a-z] start at position i of t.
LettersAt(t, i, n) ==
  /\ i + n - 1 <= Len(t)
  /\ \A k \in 0..(n - 1) : t[i + k] \in Lower

\* (mutant) the pattern [a-z]{1,3}- : one letter before the hyphen is enough.
HeadLenFromOne(t, i) ==
  IF LettersAt(t, i, 3) /\ i + 3 <= Len(t) /\ t[i + 3] = "-" THEN 4
  ELSE IF LettersAt(t, i, 2) /\ i + 2 <= Len(t) /\ t[i + 2] = "-" THEN 3
  ELSE IF LettersAt(t, i, 1) /\ i + 1 <= Len(t) /\ t[i + 1] = "-" THEN 2
  ELSE 0

\* Length of the match of [a-z]{2,3}- at position i (greedy, then backtrack), 0 if none.
HeadLen(t, i) ==
  IF LettersAt(t, i, 3) /\ i + 3 <= Len(t) /\ t[i + 3] = "-" THEN 4
  ELSE IF LettersAt(t, i, 2) /\ i + 2 <= Len(t) /\ t[i + 2] = "-" THEN 3
  ELSE 0

\* Length of the greedy match of [a-z]{2,3} at position j, 0 if none.
TailLen(t, j) ==
  IF LettersAt(t, j, 3) THEN 3 ELSE IF LettersAt(t, j, 2) THEN 2 ELSE 0

\* Length of the match of `[a-z]{2,3}-[a-z]{2,3}` starting at position i, 0 if none.
MatchLen(t, i) ==
  IF HeadLen(t, i) = 0 \/ TailLen(t, i + HeadLen(t, i)) = 0 THEN 0
  ELSE HeadLen(t, i) + TailLen(t, i + HeadLen(t, i))

\* langDirect.FindAllStringIndex(text, 1): the leftmost match as <<start, end>>
\* (1-based, end inclusive), or <<>> when the text has no match.
FindDirection(t) ==
  IF \E i \in 1..Len(t) : MatchLen(t, i) > 0
  THEN LET i == CHOOSE p \in 1..Len(t) :
                  MatchLen(t, p) > 0 /\ \A q \in 1..(p - 1) : MatchLen(t, q) = 0
       IN  <<i, i + MatchLen(t, i) - 1>>
  ELSE <<>>


\* ------------------------------------------------------------------ sorting
\* sort.Strings: insertion into an ascending list.
RECURSIVE Insert(_, _)
Insert(x, sorted) ==
  IF sorted = <<>> THEN <<x>>
  ELSE IF StrLess(Head(sorted), x) THEN <<Head(sorted)>> \o Insert(x, Tail(sorted))
  ELSE <<x>> \o sorted

RECURSIVE SortStrings(_)
SortStrings(list) ==
  IF list = <<>> THEN <<>> ELSE Insert(Head(list), SortStrings(Tail(list)))

\* sort.Search(n, f) with f(h) = languages[h] >= direction: the binary search
\* of sort.SearchStrings over the 0-based half-open interval [i, j).
RECURSIVE Search(_, _, _, _)
Search(languages, direction, i, j) ==
  IF i < j
  THEN LET h == (i + j) \div 2
       IN  IF StrLess(languages[h + 1], direction)
           THEN Search(languages, direction, h + 1, j)
           ELSE Search(languages, direction, i, h)
  ELSE i

SearchStrings(languages, direction) == Search(languages, direction, 0, Len(languages))

\* (mutant) the test without the comparison with the element found.
KnownInRange(languages, direction) ==
  SearchStrings(languages, direction) < Len(languages)

\* (mutant) the test that accepts an element the direction is a prefix of.
KnownPrefix(languages, direction) ==
  LET i == SearchStrings(languages, direction)
  IN  /\ i < Len(languages)
      /\ Len(languages[i + 1]) >= Len(direction)
      /\ SubSeq(languages[i + 1], 1, Len(direction)) = direction

\* The membership test at the end of isDirection.
Known(languages, direction) ==
  LET i == SearchStrings(languages, direction)
  IN  i < Len(languages) /\ languages[i + 1] = direction

\* ------------------------------------------------------------------ upstream
\* Endpoints of urlMap.
Urls == {"translate", "dictionary", "trLangs", "dictLangs"}

StatusOK == 200
StatusCreated == 201
StatusExpectationFailed == 417

\* Status codes the upstream may answer with.
StatusCodes == {StatusOK, 404, 500}

EnRu == <<"e","n","-","r","u">>
RuPl == <<"r","u","-","p","l">>
EnDe == <<"e","n","-","d","e">>

\* What the two direction endpoints serve (unsorted, as the upstream sends them):
\* ru-pl is a translation direction only, en-de a dictionary direction only.
\* TrDirsRepeat is a list in which the upstream repeats a direction.
TrDirs == <<RuPl, EnRu>>
TrDirsRepeat == <<RuPl, EnRu, RuPl>>
DictDirs == <<EnRu, EnDe>>

\* JSON documents an endpoint may send with a response; valid = FALSE is a body
\* that json.Unmarshal rejects.
Bodies(url) ==
  CASE url = "trLangs" ->
         {[valid |-> TRUE, doc |-> [dirs |-> TrDirs]],
          [valid |-> TRUE, doc |-> [dirs |-> TrDirsRepeat]],
          [valid |-> FALSE, doc |-> [dirs |-> <<>>]]}
    [] url = "dictLangs" ->
         {[valid |-> TRUE, doc |-> [dirs |-> DictDirs]],
          [valid |-> FALSE, doc |-> [dirs |-> <<>>]]}
    [] url = "translate" ->
         {[valid |-> TRUE, doc |-> [text |-> << <<"o","k">> >>]],
          [valid |-> TRUE, doc |-> [text |-> <<>>]],
          [valid |-> FALSE, doc |-> [text |-> <<>>]]}
    [] url = "dictionary" ->
         {[valid |-> TRUE,
           doc |-> [def |-> << [text |-> <<"g","o">>, pos |-> <<"v">>, ts |-> <<>>,
                               tr |-> << [text |-> <<"i","r">>, pos |-> <<"v">>] >>] >>]],
          [valid |-> FALSE, doc |-> [def |-> <<>>]]}

\* Error values; Nil is Go's nil error.
Err(kind) == [kind |-> kind, code |-> 0]
Nil == Err("nil")
StatusErr(code) == [kind |-> "status", code |-> code]

NoResp == [status |-> 0, body |-> [valid |-> FALSE, doc |-> [none |-> <<>>]]]

\* Outcomes of httpClient.Do(req): a response, or a transport error.  Once the
\* request context is done, Do ends with the context's deadline error.
DoOutcomes(url, ctxDone) ==
  IF ctxDone
  THEN {[err |-> Err("deadline"), resp |-> NoResp]}
  ELSE {[err |-> Err("transport"), resp |-> NoResp]}
       \cup {[err |-> Nil, resp |-> [status |-> s, body |-> b]] :
               s \in StatusCodes \ {StatusOK}, b \in {CHOOSE x \in Bodies(url) : ~x.valid}}
       \cup {[err |-> Nil, resp |-> [status |-> StatusOK, body |-> b]] : b \in Bodies(url)}


\* ------------------------------------------------------------------ normalizer
strSep == <<"\n">>

\* (mutant) a reducer that renders an empty reply as a placeholder.
TrRespStringPlaceholder(jstr) ==
  IF jstr.Text = <<>> THEN <<"-">> ELSE Join(jstr.Text, strSep)

\* jstr.String() of JSONTrResp: the text fragments joined by strSep.
TrRespString(jstr) == Join(jstr.Text, strSep)

\* json.Unmarshal into JSONTrResp.
UnmarshalTrResp(doc) == [Text |-> doc.text]

\* json.Unmarshal into JSONTrDictItem (tags "text", "pos").
UnmarshalItem(doc) == [Text |-> doc.text, Pos |-> doc.pos]

\* json.Unmarshal into JSONTrDictArticle: Pos is tagged `json:"post"`, so it
\* takes the document's "post" member and is left empty when there is none.
UnmarshalArticle(doc) ==
  [Text |-> doc.text,
   Pos  |-> IF "post" \in DOMAIN doc THEN doc.post ELSE <<>>,
   Ts   |-> doc.ts,
   Tr   |-> [j \in 1..Len(doc.tr) |-> UnmarshalItem(doc.tr[j])]]

\* json.Unmarshal into JSONTrDict.
UnmarshalTrDict(doc) == [Def |-> [i \in 1..Len(doc.def) |-> UnmarshalArticle(doc.def[i])]]

\* One element of result in JSONTrDict.String().
ArticleString(def) ==
  LET ts        == IF def.Ts # <<>> THEN <<" ", "[">> \o def.Ts \o <<"]", " ">> ELSE <<>>
      head      == def.Text \o ts
      txtResult == IF def.Pos # <<>> THEN head \o <<"(">> \o def.Pos \o <<")">> ELSE head
      arResult  == [j \in 1..Len(def.Tr) |->
                      def.Tr[j].Text \o <<" ", "(">> \o def.Tr[j].Pos \o <<")">>]
      tabSym    == strSep \o <<" ", " ">>
  IN  txtResult \o strSep \o Join(arResult, tabSym)

\* jstrd.String() of JSONTrDict.
TrDictString(jstrd) ==
  Join([i \in 1..Len(jstrd.Def) |-> ArticleString(jstrd.Def[i])], strSep)

\* (mutant) Content without the sort.
ContentUnsorted(doc) == doc.dirs

\* result.Content() of the Langer decoded from a directions document: the list, sorted.
Content(doc) == SortStrings(doc.dirs)


\* ------------------------------------------------------------------ state
VARIABLES
  trLangs,     \* translation languages storage (sorted direction codes)
  dictLangs,   \* dictionary languages storage
  langsOnce,   \* sync.Once: done flag and the holder of its mutex (0 = free)
  pc,          \* where each caller stands
  inp,         \* the caller's input: the /event request or the Translate arguments
  loc,         \* Translate's locals: direction, parsed, isTr
  out,         \* what Translate returned and the status code the handler answered
  req,         \* the frame of the caller's current (or last) call of request
  langsReqs,   \* history: requests posted so far to each directions endpoint
  ghost,       \* history per caller, read by the properties only
  initResult   \* history: what initLanguages returned inside langsOnce ("none" before)

vars == <<trLangs, dictLangs, langsOnce, pc, inp, loc, out, req, langsReqs, ghost, initResult>>

\* Chat texts the callers send.
Texts ==
  { <<>>,
    <<"h","i">>,
    EnRu \o <<" ","h","i">>,
    EnRu \o <<" ","h","i"," ","y","o">>,
    RuPl \o <<" ","h","i">>,
    EnDe \o <<" ","h","i"," ","y","o">> }

\* The texts of SpecSerial: those of Texts, and an optional lead, a token that
\* has or has not the shape of a direction, and every continuation of spaces and
\* letters up to MaxTail.
ZzZz == <<"z","z","-","z","z">>

Leads == {<<>>, <<"h">>}

Tokens == {EnRu, RuPl, EnDe, ZzZz, <<"e","n","r","u">>, <<"e","-","r","u">>}

RECURSIVE Tails(_)
Tails(n) ==
  IF n = 0 THEN {<<>>}
  ELSE LET shorter == Tails(n - 1)
       IN  shorter \cup {<<ch>> \o t : ch \in {" ", "h"}, t \in {x \in shorter : Len(x) = n - 1}}

AllTexts ==
  Texts \cup {lead \o tok \o tail : lead \in Leads, tok \in Tokens, tail \in Tails(MaxTail)}

Methods == {"POST", "GET"}

NoInp == [via |-> "none", method |-> "", decodes |-> FALSE, text |-> <<>>, hasCfg |-> FALSE]
NoLoc == [direction |-> <<>>, parsed |-> <<>>, isTr |-> FALSE]
NoOut == [result |-> <<>>, err |-> Nil, code |-> 0]
NoReq ==
  [stage |-> "none", url |-> "", task |-> "none",
   sent |-> [err |-> Nil, resp |-> NoResp],
   ctxDone |-> FALSE, branch |-> "none", returned |-> FALSE,
   ret |-> [ok |-> FALSE, err |-> Nil],
   started |-> 0, attempts |-> 0, recv |-> 0,
   timedFirst |-> FALSE, read |-> FALSE, closed |-> FALSE]
NoGhost ==
  [called |-> FALSE,     \* Translate was called
   afterFail |-> FALSE,  \* initLanguages had returned an error before this call began
   ranInit |-> FALSE,    \* this call ran initLanguages inside langsOnce
   popReqs |-> 0,        \* directions requests this call posted
   searched |-> "",      \* the storage isDirection searched
   ok |-> FALSE,         \* what isDirection returned
   content |-> <<>>,     \* endpoints of the content requests this call posted
   status |-> 0,         \* status of the response its content request obtained (0: none)
   branch |-> "none",    \* the select case its content request took
   read |-> FALSE,       \* whether its content request read the response body
   texts |-> -1]         \* fragments of the translate reply it decoded (-1: none decoded)

Init ==
  /\ trLangs = <<>>
  /\ dictLangs = <<>>
  /\ langsOnce = [done |-> FALSE, m |-> 0]
  /\ pc = [c \in Callers |-> "idle"]
  /\ inp = [c \in Callers |-> NoInp]
  /\ loc = [c \in Callers |-> NoLoc]
  /\ out = [c \in Callers |-> NoOut]
  /\ req = [c \in Callers |-> NoReq]
  /\ langsReqs = [u \in {"trLangs", "dictLangs"} |-> 0]
  /\ ghost = [c \in Callers |-> NoGhost]
  /\ initResult = "none"

\* ------------------------------------------------------------------ Translate
\* The head of Translate: the first match of langDirect, the direction, the
\* trimmed rest and the translate-or-dictionary decision.
ParseText(text) ==
  LET found == FindDirection(text)
  IN  IF found = <<>>
      THEN [found |-> FALSE, direction |-> <<>>, parsed |-> <<>>, isTr |-> FALSE]
      ELSE LET parsed   == Trim(SubSeq(text, found[2] + 1, Len(text)))
               elements == SplitN2(parsed)
           IN  [found |-> TRUE,
                direction |-> Trim(SubSeq(text, found[1], found[2])),
                parsed |-> parsed,
                isTr |-> Len(elements) > 1]

\* (mutant) a handler without the check of the empty result.
EventCodeAnyResult(result, err) ==
  IF err # Nil THEN StatusExpectationFailed ELSE StatusCreated

\* The status the /event handler answers with after Translate returned.
EventCode(result, err) ==
  IF err # Nil THEN StatusExpectationFailed
  ELSE IF result = <<>> THEN StatusExpectationFailed
  ELSE StatusCreated

\* Translate returns (result, err) to its caller; the /event handler answers.
Returned(via, result, err) ==
  [result |-> result, err |-> err,
   code |-> IF via = "event" THEN EventCode(result, err) ELSE 0]

\* (mutant) the two content endpoints swapped.
ContentUrlSwapped(isTr) == IF isTr THEN "dictionary" ELSE "translate"

\* The endpoint getTranslation posts to.
ContentUrl(isTr) == IF isTr THEN "translate" ELSE "dictionary"

\* The endpoint getLangs posts to.
LangsUrl(isTr) == IF isTr THEN "trLangs" ELSE "dictLangs"

\* The isTr argument of the two getLangs calls of initLanguages.
FirstGetLangsArg == TRUE
SecondGetLangsArg == TRUE

\* The storage isDirection searches: trLangs or dictLangs.
CatalogName(isTr) == IF isTr THEN "trLangs" ELSE "dictLangs"

Catalog(name) == IF name = "trLangs" THEN trLangs ELSE dictLangs

Languages(isTr) == Catalog(CatalogName(isTr))

\* request creates its context and starts its one goroutine.
NewReq(stage, url) ==
  [NoReq EXCEPT !.stage = stage, !.url = url, !.task = "running", !.started = 1]

\* Translate up to its call of isDirection.
EnterTranslate(c, in) ==
  LET p == ParseText(in.text)
  IN  /\ inp' = [inp EXCEPT ![c] = in]
      /\ ghost' = [ghost EXCEPT ![c].called = TRUE, ![c].afterFail = (initResult = "err")]
      /\ IF ~p.found
         THEN /\ pc' = [pc EXCEPT ![c] = "done"]
              /\ out' = [out EXCEPT ![c] = Returned(in.via, <<>>, Nil)]
              /\ loc' = loc
         ELSE /\ pc' = [pc EXCEPT ![c] = "once"]
              /\ loc' = [loc EXCEPT ![c] =
                           [direction |-> p.direction, parsed |-> p.parsed, isTr |-> p.isTr]]
              /\ out' = out
      /\ UNCHANGED <<trLangs, dictLangs, langsOnce, req, langsReqs, initResult>>

\* The /event handler: method check, JSON decoding of the body, Translate.
HandleEventOn(c, texts) ==
  /\ pc[c] = "idle"
  /\ \E method \in Methods, decodes \in BOOLEAN, text \in texts :
       /\ (method # "POST" \/ ~decodes) => text = <<>>
       /\ IF method # "POST" \/ ~decodes
          THEN /\ inp' = [inp EXCEPT ![c] =
                            [via |-> "event", method |-> method, decodes |-> decodes,
                             text |-> text, hasCfg |-> TRUE]]
               /\ pc' = [pc EXCEPT ![c] = "done"]
               /\ out' = [out EXCEPT ![c] =
                            [result |-> <<>>, err |-> Nil, code |-> StatusExpectationFailed]]
               /\ UNCHANGED <<trLangs, dictLangs, langsOnce, loc, req, langsReqs, ghost,
                              initResult>>
          ELSE EnterTranslate(c, [via |-> "event", method |-> method, decodes |-> decodes,
                                  text |-> text, hasCfg |-> TRUE])

\* The author the /info handler answers with.
Author ==
  <<"t", "h", "e", "b", "e", "s", "t", "z", "o", "r", "r", "o", "@",
    "y", "a", "n", "d", "e", "x", ".", "r", "u">>

\* Methods of the requests to /info.
InfoMethods == {"GET", "POST", "DELETE"}

\* (mutant) an /info handler without the method check.
InfoCodeAnyMethod(method) == StatusCreated

\* The status the /info handler answers with.
InfoCode(method) == IF method # "GET" THEN StatusExpectationFailed ELSE StatusCreated

\* The /info handler: method check, then the encoded InfoResponse.
HandleInfo(c) ==
  /\ pc[c] = "idle"
  /\ \E method \in InfoMethods :
       /\ inp' = [inp EXCEPT ![c] = [NoInp EXCEPT !.via = "info", !.method = method,
                                                  !.hasCfg = TRUE]]
       /\ out' = [out EXCEPT ![c] =
                    [result |-> IF InfoCode(method) = StatusCreated THEN Author ELSE <<>>,
                     err |-> Nil, code |-> InfoCode(method)]]
  /\ pc' = [pc EXCEPT ![c] = "done"]
  /\ UNCHANGED <<trLangs, dictLangs, langsOnce, loc, req, langsReqs, ghost, initResult>>

\* Translate called with a context that carries no Config.
CallTranslateOn(c, texts) ==
  /\ pc[c] = "idle"
  /\ \E text \in texts :
       EnterTranslate(c, [via |-> "direct", method |-> "", decodes |-> FALSE,
                          text |-> text, hasCfg |-> FALSE])


\* The handler's goroutine ends (or the direct caller has its answer): the
\* caller is free for its next call.
Reset(c) ==
  /\ pc[c] = "done"
  /\ pc' = [pc EXCEPT ![c] = "idle"]
  /\ inp' = [inp EXCEPT ![c] = NoInp]
  /\ loc' = [loc EXCEPT ![c] = NoLoc]
  /\ out' = [out EXCEPT ![c] = NoOut]
  /\ ghost' = [ghost EXCEPT ![c] = NoGhost]
  /\ UNCHANGED <<trLangs, dictLangs, langsOnce, req, langsReqs, initResult>>

\* ------------------------------------------------------------------ langsOnce
\* (mutant) a gate without the mutex: a caller arriving while the function
\* runs is let in.
OnceMayEnterAnytime(once) == TRUE

\* sync.Once.Do lets a caller in when the function has run, or when nobody
\* holds the mutex; a caller arriving while it runs waits for the mutex.
OnceMayEnter(once) == once.done \/ once.m = 0

\* initLanguages returns: the deferred store of done, the unlock of the mutex.
OnceFinished == [done |-> TRUE, m |-> 0]

\* langsOnce.Do(func() { initLanguages(ctx) }) in isDirection.
OnceDo(c) ==
  /\ pc[c] = "once"
  /\ OnceMayEnter(langsOnce)
  /\ IF langsOnce.done
     THEN \* the function has run: Do returns at once
          /\ pc' = [pc EXCEPT ![c] = "lookup"]
          /\ UNCHANGED <<trLangs, dictLangs, langsOnce, req, langsReqs, ghost, initResult>>
     ELSE IF ~inp[c].hasCfg
     THEN \* the first getLangs fails on the context: trLangs, err = nil, error
          /\ trLangs' = <<>>
          /\ initResult' = "err"
          /\ langsOnce' = OnceFinished
          /\ pc' = [pc EXCEPT ![c] = "lookup"]
          /\ ghost' = [ghost EXCEPT ![c].ranInit = TRUE]
          /\ UNCHANGED <<dictLangs, req, langsReqs>>
     ELSE \* the first getLangs posts its request
          /\ langsOnce' = [done |-> FALSE, m |-> c]
          /\ req' = [req EXCEPT ![c] = NewReq("init1", LangsUrl(FirstGetLangsArg))]
          /\ langsReqs' = [langsReqs EXCEPT ![LangsUrl(FirstGetLangsArg)] = @ + 1]
          /\ ghost' = [ghost EXCEPT ![c].ranInit = TRUE, ![c].popReqs = @ + 1]
          /\ pc' = [pc EXCEPT ![c] = "select"]
          /\ UNCHANGED <<trLangs, dictLangs, initResult>>
  /\ UNCHANGED <<inp, loc, out>>

\* ------------------------------------------------------------------ request
\* A goroutine that calls httpClient.Do a second time when the first call
\* returned an error.
TaskDoRetrying(c) ==
  /\ req[c].task = "running"
  /\ \E o \in DoOutcomes(req[c].url, req[c].ctxDone) :
       req' = [req EXCEPT ![c].task = IF o.err # Nil /\ req[c].attempts = 0
                                      THEN "running" ELSE "sending",
                          ![c].sent = o,
                          ![c].attempts = @ + 1]
  /\ UNCHANGED <<trLangs, dictLangs, langsOnce, pc, inp, loc, out, langsReqs, ghost, initResult>>

\* (mutant) a goroutine that ends after httpClient.Do without sending to ec.
TaskDoNoSend(c) ==
  /\ req[c].task = "running"
  /\ \E o \in DoOutcomes(req[c].url, req[c].ctxDone) :
       req' = [req EXCEPT ![c].task = "exited", ![c].sent = o, ![c].attempts = @ + 1]
  /\ UNCHANGED <<trLangs, dictLangs, langsOnce, pc, inp, loc, out, langsReqs, ghost, initResult>>

\* The goroutine of request: its one call of httpClient.Do returns and the
\* goroutine blocks on its send to ec.
TaskDo(c) ==
  /\ req[c].task = "running"
  /\ \E o \in DoOutcomes(req[c].url, req[c].ctxDone) :
       req' = [req EXCEPT ![c].task = "sending", ![c].sent = o, ![c].attempts = @ + 1]
  /\ UNCHANGED <<trLangs, dictLangs, langsOnce, pc, inp, loc, out, langsReqs, ghost, initResult>>

\* The deadline of context.WithTimeout passes: ctx.Done() is closed.
TimerFire(c) ==
  /\ pc[c] = "select"
  /\ ~req[c].ctxDone
  /\ req' = [req EXCEPT ![c].ctxDone = TRUE, ![c].timedFirst = (req[c].task = "running")]
  /\ UNCHANGED <<trLangs, dictLangs, langsOnce, pc, inp, loc, out, langsReqs, ghost, initResult>>

\* The cases of the select that can proceed.
Ready(r) ==
  (IF r.ctxDone THEN {"done"} ELSE {}) \cup (IF r.task = "sending" THEN {"ec"} ELSE {})

\* (mutant) the Done branch returns "timed out" without receiving from ec.
DoneBranchNoDrain(r) ==
  [r EXCEPT !.branch = "done", !.returned = TRUE,
            !.ret = [ok |-> FALSE, err |-> Err("timeout")]]

\* case <-ctx.Done(): the frame on entering the branch; the receive from ec follows.
DoneBranch(r) == [r EXCEPT !.branch = "done"]

\* <-ec in the Done branch, then return nil, "timed out".
DrainReturn(r) ==
  [r EXCEPT !.task = "exited", !.recv = @ + 1, !.returned = TRUE,
            !.ret = [ok |-> FALSE, err |-> Err("timeout")]]

\* (mutant) the ec case without the status check.
EcReturnAnyStatus(r, readOK) ==
  LET got == [r EXCEPT !.branch = "ec", !.task = "exited", !.recv = @ + 1, !.returned = TRUE]
  IN  IF r.sent.err # Nil
      THEN [got EXCEPT !.ret = [ok |-> FALSE, err |-> r.sent.err]]
      ELSE IF ~readOK
      THEN [got EXCEPT !.closed = TRUE, !.read = TRUE,
                       !.ret = [ok |-> FALSE, err |-> Err("read")]]
      ELSE [got EXCEPT !.closed = TRUE, !.read = TRUE, !.ret = [ok |-> TRUE, err |-> Nil]]

\* case err := <-ec and the rest of request: the deferred Body.Close, the
\* status check and ioutil.ReadAll (readOK: whether reading the body succeeds).
EcReturn(r, readOK) ==
  LET got == [r EXCEPT !.branch = "ec", !.task = "exited", !.recv = @ + 1, !.returned = TRUE]
  IN  IF r.sent.err # Nil
      THEN [got EXCEPT !.ret = [ok |-> FALSE, err |-> r.sent.err]]
      ELSE IF r.sent.resp.status # StatusOK
      THEN [got EXCEPT !.closed = TRUE,
                       !.ret = [ok |-> FALSE, err |-> StatusErr(r.sent.resp.status)]]
      ELSE IF ~readOK
      THEN [got EXCEPT !.closed = TRUE, !.read = TRUE,
                       !.ret = [ok |-> FALSE, err |-> Err("read")]]
      ELSE [got EXCEPT !.closed = TRUE, !.read = TRUE, !.ret = [ok |-> TRUE, err |-> Nil]]

\* The select takes the ctx.Done() case.
SelectDone(c) ==
  /\ pc[c] = "select"
  /\ "done" \in Ready(req[c])
  /\ req' = [req EXCEPT ![c] = DoneBranch(req[c])]
  /\ pc' = [pc EXCEPT ![c] = IF req'[c].returned THEN "returned" ELSE "drain"]
  /\ UNCHANGED <<trLangs, dictLangs, langsOnce, inp, loc, out, langsReqs, ghost, initResult>>

\* The Done branch receives the goroutine's outcome and request returns "timed out".
Drain(c) ==
  /\ pc[c] = "drain"
  /\ req[c].task = "sending"
  /\ req' = [req EXCEPT ![c] = DrainReturn(req[c])]
  /\ pc' = [pc EXCEPT ![c] = "returned"]
  /\ UNCHANGED <<trLangs, dictLangs, langsOnce, inp, loc, out, langsReqs, ghost, initResult>>

\* The select takes the ec case and request runs to its return.
SelectEc(c) ==
  /\ pc[c] = "select"
  /\ "ec" \in Ready(req[c])
  /\ \E readOK \in BOOLEAN :
       req' = [req EXCEPT ![c] = EcReturn(req[c], readOK)]
  /\ pc' = [pc EXCEPT ![c] = "returned"]
  /\ UNCHANGED <<trLangs, dictLangs, langsOnce, inp, loc, out, langsReqs, ghost, initResult>>

\* ------------------------------------------------------------------ getLangs
\* What getLangs returns after request returned: <<list, failed>>.
GetLangsResult(r) ==
  IF r.ret.err # Nil THEN [list |-> <<>>, failed |-> TRUE]
  ELSE IF ~r.sent.resp.body.valid THEN [list |-> <<>>, failed |-> TRUE]
  ELSE [list |-> Content(r.sent.resp.body.doc), failed |-> FALSE]

\* initLanguages after a getLangs call returned: the assignment to trLangs or
\* dictLangs, then the error return or the next step.
GetLangsReturn(c) ==
  /\ pc[c] = "returned"
  /\ req[c].stage \in {"init1", "init2"}
  /\ LET res == GetLangsResult(req[c])
     IN  IF req[c].stage = "init1"
         THEN /\ trLangs' = res.list
              /\ dictLangs' = dictLangs
              /\ IF res.failed
                 THEN /\ initResult' = "err"
                      /\ langsOnce' = OnceFinished
                      /\ pc' = [pc EXCEPT ![c] = "lookup"]
                      /\ req' = [req EXCEPT ![c] = NoReq]
                      /\ UNCHANGED <<langsReqs, ghost>>
                 ELSE /\ req' = [req EXCEPT ![c] = NewReq("init2", LangsUrl(SecondGetLangsArg))]
                      /\ langsReqs' = [langsReqs EXCEPT ![LangsUrl(SecondGetLangsArg)] = @ + 1]
                      /\ ghost' = [ghost EXCEPT ![c].popReqs = @ + 1]
                      /\ pc' = [pc EXCEPT ![c] = "select"]
                      /\ UNCHANGED <<langsOnce, initResult>>
         ELSE /\ dictLangs' = res.list
              /\ trLangs' = trLangs
              /\ initResult' = IF res.failed THEN "err" ELSE "ok"
              /\ langsOnce' = OnceFinished
              /\ pc' = [pc EXCEPT ![c] = "lookup"]
              /\ req' = [req EXCEPT ![c] = NoReq]
              /\ UNCHANGED <<langsReqs, ghost>>
  /\ UNCHANGED <<inp, loc, out>>

\* ------------------------------------------------------------------ isDirection, getTranslation
\* isDirection after langsOnce.Do: the search; then Translate's return for an
\* unknown direction, or getTranslation up to its call of request.
Lookup(c) ==
  /\ pc[c] = "lookup"
  /\ IF ~Known(Languages(loc[c].isTr), loc[c].direction)
     THEN /\ out' = [out EXCEPT ![c] = Returned(inp[c].via, <<>>, Nil)]
          /\ pc' = [pc EXCEPT ![c] = "done"]
          /\ ghost' = [ghost EXCEPT ![c].searched = CatalogName(loc[c].isTr),
                                    ![c].ok = FALSE]
          /\ req' = req
     ELSE IF ~inp[c].hasCfg
     THEN /\ out' = [out EXCEPT ![c] = Returned(inp[c].via, <<>>, Err("config"))]
          /\ pc' = [pc EXCEPT ![c] = "done"]
          /\ ghost' = [ghost EXCEPT ![c].searched = CatalogName(loc[c].isTr),
                                    ![c].ok = TRUE]
          /\ req' = req
     ELSE /\ req' = [req EXCEPT ![c] = NewReq("content", ContentUrl(loc[c].isTr))]
          /\ ghost' = [ghost EXCEPT ![c].searched = CatalogName(loc[c].isTr),
                                    ![c].ok = TRUE,
                                    ![c].content = Append(@, ContentUrl(loc[c].isTr))]
          /\ pc' = [pc EXCEPT ![c] = "select"]
          /\ out' = out
  /\ UNCHANGED <<trLangs, dictLangs, langsOnce, inp, loc, langsReqs, initResult>>

\* What getTranslation returns after request returned.
GetTranslationResult(r, isTr) ==
  IF r.ret.err # Nil THEN [result |-> <<>>, err |-> r.ret.err]
  ELSE IF ~r.sent.resp.body.valid THEN [result |-> <<>>, err |-> Err("decode")]
  ELSE IF isTr
  THEN [result |-> TrRespString(UnmarshalTrResp(r.sent.resp.body.doc)), err |-> Nil]
  ELSE [result |-> TrDictString(UnmarshalTrDict(r.sent.resp.body.doc)), err |-> Nil]

\* getTranslation and Translate return; the /event handler answers.
GetTranslationReturn(c) ==
  /\ pc[c] = "returned"
  /\ req[c].stage = "content"
  /\ LET res == GetTranslationResult(req[c], loc[c].isTr)
     IN  out' = [out EXCEPT ![c] = Returned(inp[c].via, res.result, res.err)]
  /\ pc' = [pc EXCEPT ![c] = "done"]
  /\ req' = [req EXCEPT ![c] = NoReq]
  /\ ghost' = [ghost EXCEPT ![c].status = req[c].sent.resp.status,
                            ![c].branch = req[c].branch,
                            ![c].read = req[c].read,
                            ![c].texts =
                              IF /\ req[c].ret.err = Nil /\ req[c].sent.resp.body.valid
                                 /\ loc[c].isTr
                              THEN Len(UnmarshalTrResp(req[c].sent.resp.body.doc).Text)
                              ELSE -1]
  /\ UNCHANGED <<trLangs, dictLangs, langsOnce, inp, loc, langsReqs, initResult>>

\* ------------------------------------------------------------------ specification
HandleEvent(c) == HandleEventOn(c, Texts)

CallTranslate(c) == CallTranslateOn(c, Texts)

Next ==
  \E c \in Callers :
    \/ HandleEvent(c)
    \/ CallTranslate(c)
    \/ Reset(c)
    \/ OnceDo(c)
    \/ TaskDo(c)
    \/ TimerFire(c)
    \/ SelectDone(c)
    \/ Drain(c)
    \/ SelectEc(c)
    \/ GetLangsReturn(c)
    \/ Lookup(c)
    \/ GetTranslationReturn(c)

Spec == Init /\ [][Next]_vars

\* The host handles one call at a time, over the texts of AllTexts.
Alone(c) == \A d \in Callers \ {c} : pc[d] = "idle"

SerialEvent(c) == Alone(c) /\ HandleEventOn(c, AllTexts)

SerialTranslate(c) == Alone(c) /\ CallTranslateOn(c, AllTexts)

SerialInfo(c) == Alone(c) /\ HandleInfo(c)

NextSerial ==
  \E c \in Callers :
    \/ SerialEvent(c)
    \/ SerialTranslate(c)
    \/ SerialInfo(c)
    \/ Reset(c)
    \/ OnceDo(c)
    \/ TaskDo(c)
    \/ TimerFire(c)
    \/ SelectDone(c)
    \/ Drain(c)
    \/ SelectEc(c)
    \/ GetLangsReturn(c)
    \/ Lookup(c)
    \/ GetTranslationReturn(c)

SpecSerial == Init /\ [][NextSerial]_vars

\* isDirection over any sorted storage: the process after a population whose
\* upstream served any list of at most MaxList of the directions of
\* CatalogDirs. Both storages hold the sorted list, or the second getLangs
\* failed and dictLangs is nil. The calls are Translate calls without a
\* Config, which end at the search or at the Config check of getTranslation.
EnRuh == <<"e", "n", "-", "r", "u", "h">>

CatalogDirs == {EnDe, EnRu, EnRuh, RuPl}

SortedLists ==
  {l \in UNION {[1..n -> CatalogDirs] : n \in 0..MaxList} :
     \A i \in 1..Len(l), j \in 1..Len(l) : i < j => ~StrLess(l[j], l[i])}

CatalogTexts ==
  {d \o tail : d \in CatalogDirs, tail \in {<<" ", "h">>, <<" ", "h", " ", "i">>}}

InitCatalog ==
  /\ trLangs \in SortedLists
  /\ \/ dictLangs = trLangs /\ initResult = "ok"
     \/ dictLangs = <<>> /\ initResult = "err"
  /\ langsOnce = OnceFinished
  /\ pc = [c \in Callers |-> "idle"]
  /\ inp = [c \in Callers |-> NoInp]
  /\ loc = [c \in Callers |-> NoLoc]
  /\ out = [c \in Callers |-> NoOut]
  /\ req = [c \in Callers |-> NoReq]
  /\ langsReqs = [u \in {"trLangs", "dictLangs"} |-> IF u = "trLangs" THEN 2 ELSE 0]
  /\ ghost = [c \in Callers |-> NoGhost]

CatalogTranslate(c) == Alone(c) /\ CallTranslateOn(c, CatalogTexts)

NextCatalog ==
  \E c \in Callers :
    \/ CatalogTranslate(c)
    \/ OnceDo(c)
    \/ Lookup(c)
    \/ Reset(c)

SpecCatalog == InitCatalog /\ [][NextCatalog]_vars


\* Concurrent callers at the once-gate: /event requests whose direction the
\* translation service does not serve, so that their calls end at the search,
\* and Translate calls without a Config, whose known direction ends at the
\* Config check of getTranslation.
GateEventTexts == {<<>>, EnDe \o <<" ", "h", " ", "i">>}

GateDirectTexts == {EnRu \o <<" ", "h", " ", "i">>}

GateEvent(c) == HandleEventOn(c, GateEventTexts)

GateTranslate(c) == CallTranslateOn(c, GateDirectTexts)

NextGate ==
  \E c \in Callers :
    \/ GateEvent(c)
    \/ GateTranslate(c)
    \/ Reset(c)
    \/ OnceDo(c)
    \/ TaskDo(c)
    \/ TimerFire(c)
    \/ SelectDone(c)
    \/ Drain(c)
    \/ SelectEc(c)
    \/ GetLangsReturn(c)
    \/ Lookup(c)

SpecGate == Init /\ [][NextGate]_vars

\* The process that calls initLanguages at start-up, before it serves, as the
\* older main and TestEvent do, and then serves one /event request at a time,
\* each of which passes through langsOnce.Do in isDirection.
StartUp ==
  /\ \A c \in Callers : pc[c] = "idle"
  /\ langsOnce = [done |-> FALSE, m |-> 0]
  /\ initResult = "none"
  /\ \A u \in DOMAIN langsReqs : langsReqs[u] = 0

\* err = initLanguages(mainCtx): the first getLangs posts its request.
EagerInit(c) ==
  /\ StartUp
  /\ inp' = [inp EXCEPT ![c] = [NoInp EXCEPT !.via = "init", !.hasCfg = TRUE]]
  /\ req' = [req EXCEPT ![c] = NewReq("eager1", LangsUrl(FirstGetLangsArg))]
  /\ langsReqs' = [langsReqs EXCEPT ![LangsUrl(FirstGetLangsArg)] = @ + 1]
  /\ pc' = [pc EXCEPT ![c] = "select"]
  /\ UNCHANGED <<trLangs, dictLangs, langsOnce, loc, out, ghost, initResult>>

\* The direct initLanguages call after a getLangs call returned: the
\* assignment, then the next step, the nil return, or the error on which the
\* caller ends the process (Panicf, t.Fatalf).
EagerReturn(c) ==
  /\ pc[c] = "returned"
  /\ req[c].stage \in {"eager1", "eager2"}
  /\ LET res == GetLangsResult(req[c])
     IN  /\ IF req[c].stage = "eager1"
            THEN trLangs' = res.list /\ dictLangs' = dictLangs
            ELSE dictLangs' = res.list /\ trLangs' = trLangs
         /\ IF res.failed
            THEN /\ pc' = [pc EXCEPT ![c] = "halted"]
                 /\ out' = [out EXCEPT ![c] = [result |-> <<>>, err |-> Err("init"), code |-> 0]]
                 /\ req' = [req EXCEPT ![c] = NoReq]
                 /\ langsReqs' = langsReqs
            ELSE IF req[c].stage = "eager1"
            THEN /\ req' = [req EXCEPT ![c] = NewReq("eager2", LangsUrl(SecondGetLangsArg))]
                 /\ langsReqs' = [langsReqs EXCEPT ![LangsUrl(SecondGetLangsArg)] = @ + 1]
                 /\ pc' = [pc EXCEPT ![c] = "select"]
                 /\ out' = out
            ELSE /\ pc' = [pc EXCEPT ![c] = "done"]
                 /\ out' = [out EXCEPT ![c] = NoOut]
                 /\ req' = [req EXCEPT ![c] = NoReq]
                 /\ langsReqs' = langsReqs
  /\ UNCHANGED <<langsOnce, inp, loc, ghost, initResult>>

EagerEvent(c) == Alone(c) /\ HandleEventOn(c, Texts)

NextEager ==
  \E c \in Callers :
    \/ EagerInit(c)
    \/ EagerReturn(c)
    \/ EagerEvent(c)
    \/ Reset(c)
    \/ OnceDo(c)
    \/ TaskDo(c)
    \/ TimerFire(c)
    \/ SelectDone(c)
    \/ Drain(c)
    \/ SelectEc(c)
    \/ GetLangsReturn(c)
    \/ Lookup(c)
    \/ GetTranslationReturn(c)

SpecEager == Init /\ [][NextEager]_vars

\* The scheduling request relies on: the timer of context.WithTimeout fires,
\* httpClient.Do ends once its context is done (the upstream may stay silent
\* until then), and a goroutine that can take a step of request's select or
\* of the receive from ec takes it.
RequestFairness ==
  \A c \in Callers :
    /\ WF_vars(TimerFire(c))
    /\ WF_vars(req[c].ctxDone /\ TaskDo(c))
    /\ WF_vars(SelectDone(c) \/ SelectEc(c))
    /\ WF_vars(Drain(c))

SpecLive == Init /\ [][NextEager]_vars /\ RequestFairness

\* ------------------------------------------------------------------ properties
\* The call of caller c found a direction token and has left langsOnce.Do.
PastOnce(c) == ghost[c].called /\ pc[c] \in {"lookup", "select", "drain", "returned", "done"}

\* d is one of the directions of the upstream list dirs.
Serves(dirs, d) == \E i \in 1..Len(dirs) : dirs[i] = d

\* C1: population posts exactly one request to the translation-directions
\* endpoint and exactly one to the dictionary-directions endpoint: never two to
\* either, and one to each once initLanguages has returned without error.
C1_OneRequestPerService ==
  /\ \A u \in DOMAIN langsReqs : langsReqs[u] <= 1
  /\ initResult = "ok" => \A u \in DOMAIN langsReqs : langsReqs[u] = 1

\* C2: after a successful population each storage holds its own service's
\* directions: every direction the dictionary endpoint serves is known for the
\* dictionary, every direction the translation endpoint serves is known for the
\* translation, and a direction of the other service only is not known.
C2_OwnDirections ==
  initResult = "ok" =>
    \A d \in {EnRu, RuPl, EnDe, ZzZz} :
      /\ Known(dictLangs, d) <=> Serves(DictDirs, d)
      /\ Known(trLangs, d) <=> Serves(TrDirs, d)

\* C3: a Translate call that triggered a population that failed returns a
\* non-nil error.
C3_PopulationFailureSurfaced ==
  \A c \in Callers :
    (pc[c] = "done" /\ ghost[c].ranInit /\ initResult = "err") => out[c].err # Nil

\* C4: a failed population is not cached: a Translate call with a direction
\* token that began after initLanguages had returned an error posts a new
\* directions request before it searches the catalog.
C4_FailedPopulationRetried ==
  \A c \in Callers :
    (PastOnce(c) /\ ghost[c].afterFail) => ghost[c].popReqs >= 1

\* C5: when the timeout elapsed while the HTTP call was still running, request
\* returns the "timed out" error, never the error of the cancelled HTTP call
\* and never a body.
C5_TimeoutWins ==
  \A c \in Callers :
    (req[c].returned /\ req[c].timedFirst) =>
      req[c].ret = [ok |-> FALSE, err |-> Err("timeout")]


\* C6: each call of request starts exactly one goroutine and, on every path,
\* has received that goroutine's outcome exactly once when it returns, so the
\* goroutine is not left blocked on its send.
C6_TaskDrainedOnce ==
  \A c \in Callers :
    /\ req[c].stage # "none" => req[c].started = 1
    /\ req[c].recv <= 1
    /\ req[c].returned => (req[c].recv = 1 /\ req[c].task = "exited")

\* A call of request has returned on the timeout path.
C6_Witness ==
  \E c \in Callers :
    req[c].returned /\ req[c].branch = "done" /\ req[c].ret.err = Err("timeout")

\* The text has a substring of the shape of a direction: two or three lower-case
\* letters, a hyphen, two or three lower-case letters.
HasDirectionShape(text) ==
  \E i \in 1..Len(text), a \in {2, 3}, b \in {2, 3} :
    /\ i + a + b <= Len(text)
    /\ \A k \in i..(i + a - 1) : text[k] \in Lower
    /\ text[i + a] = "-"
    /\ \A k \in (i + a + 1)..(i + a + b) : text[k] \in Lower

\* What follows the direction token in the text.
Payload(text) == SubSeq(text, FindDirection(text)[2] + 1, Len(text))

\* The payload has a second space-separated token: two characters that are not
\* spaces with a space somewhere between them.
HasSecondToken(p) ==
  \E j \in 1..Len(p) :
    /\ p[j] = " "
    /\ \E i \in 1..(j - 1) : p[i] # " "
    /\ \E k \in (j + 1)..Len(p) : p[k] # " "

\* The endpoint and the storage that the intent of the text implies.
IntentUrl(text) == IF HasSecondToken(Payload(text)) THEN "translate" ELSE "dictionary"
IntentCatalog(text) == IF HasSecondToken(Payload(text)) THEN trLangs ELSE dictLangs

\* C7: a Translate call posts at most one content request; it posts to the
\* translation endpoint exactly when the payload has a second token and to the
\* dictionary endpoint otherwise, after finding the direction in the storage
\* of that same service; a call with a known direction posts that request.
C7_IntentSelectsEndpoint ==
  \A c \in Callers :
    /\ ghost[c].content # <<>> =>
         /\ ghost[c].content = <<IntentUrl(inp[c].text)>>
         /\ ghost[c].searched = (IF ghost[c].content[1] = "translate" THEN "trLangs" ELSE "dictLangs")
         /\ Serves(IntentCatalog(inp[c].text), loc[c].direction)
    /\ (/\ pc[c] = "done" /\ ghost[c].called /\ inp[c].hasCfg
        /\ HasDirectionShape(inp[c].text)
        /\ Serves(IntentCatalog(inp[c].text), loc[c].direction))
         => ghost[c].content = <<IntentUrl(inp[c].text)>>

\* A call with a multi-token payload was answered by the translation endpoint.
C7_Witness ==
  \E c \in Callers :
    /\ pc[c] = "done" /\ ghost[c].content = <<"translate">>
    /\ HasSecondToken(Payload(inp[c].text)) /\ out[c].result # <<>>

\* C8: for a text with no direction-shaped substring Translate returns the
\* empty string and a nil error in one step that posts no request and leaves
\* both storages, langsOnce and the request frames unchanged.
C8_NoDirectionNoTraffic ==
  [][\A c \in Callers :
       (pc[c] = "idle" /\ ghost'[c].called /\ ~HasDirectionShape(inp'[c].text)) =>
         /\ pc'[c] = "done"
         /\ out'[c].result = <<>> /\ out'[c].err = Nil
         /\ ghost'[c].content = <<>> /\ ghost'[c].popReqs = 0 /\ ~ghost'[c].ranInit
         /\ UNCHANGED <<trLangs, dictLangs, langsOnce, langsReqs, req>>]_vars

\* Translate has returned for a non-empty text without a direction token.
C8_Witness ==
  \E c \in Callers :
    /\ pc[c] = "done" /\ ghost[c].called
    /\ inp[c].text # <<>> /\ ~HasDirectionShape(inp[c].text)
    /\ out[c].result = <<>> /\ out[c].err = Nil

\* C9: a call whose direction token is not in the storage of the service its
\* intent chooses returns the empty string and a nil error and has posted no
\* content request.
C9_UnknownDirectionNoContent ==
  \A c \in Callers :
    (/\ pc[c] = "done" /\ ghost[c].called
     /\ HasDirectionShape(inp[c].text)
     /\ ~Serves(IntentCatalog(inp[c].text), loc[c].direction))
      => (out[c].result = <<>> /\ out[c].err = Nil /\ ghost[c].content = <<>>)

\* A call with an unknown direction returned after a successful population.
C9_Witness ==
  \E c \in Callers :
    /\ pc[c] = "done" /\ initResult = "ok" /\ loc[c].direction = ZzZz
    /\ ghost[c].searched # "" /\ out[c].result = <<>> /\ ghost[c].content = <<>>

\* C10 as stated: whenever the upstream answered the content call with a
\* status other than 200, Translate returns the error carrying that status and
\* an empty string, and the /event handler answers 417.
C10_StatusErrorAlways ==
  \A c \in Callers :
    (pc[c] = "done" /\ ghost[c].status \notin {0, StatusOK}) =>
      /\ out[c].err = StatusErr(ghost[c].status)
      /\ out[c].result = <<>>
      /\ inp[c].via = "event" => out[c].code = StatusExpectationFailed

\* C10 (amended): when the upstream answered the content call with a status
\* other than 200, the body is not read, Translate returns an empty string and
\* the /event handler answers 417; the error carries that status when the
\* select received the goroutine's outcome, and is "timed out" when the select
\* took the timeout case.
C10_StatusErrorUnlessTimeout ==
  \A c \in Callers :
    (pc[c] = "done" /\ ghost[c].status \notin {0, StatusOK}) =>
      /\ ~ghost[c].read
      /\ out[c].result = <<>>
      /\ inp[c].via = "event" => out[c].code = StatusExpectationFailed
      /\ ghost[c].branch = "ec" => out[c].err = StatusErr(ghost[c].status)
      /\ ghost[c].branch = "done" => out[c].err = Err("timeout")

\* The handler answered 417 for a content call the upstream answered with 500.
C10_Witness ==
  \E c \in Callers :
    /\ pc[c] = "done" /\ ghost[c].status = 500 /\ ghost[c].branch = "ec"
    /\ out[c].err = StatusErr(500) /\ out[c].code = StatusExpectationFailed

\* C11: a Translate call whose text has a direction token and whose context
\* carries no Config returns the error "configuration ctx not found", whatever
\* the state of the storages when the call began.
C11_ConfigMissingSurfaced ==
  \A c \in Callers :
    (/\ pc[c] = "done" /\ ghost[c].called
     /\ ~inp[c].hasCfg /\ HasDirectionShape(inp[c].text)) =>
      out[c].err = Err("config")

\* C12: no retries. Every call of request makes exactly one call of
\* httpClient.Do: never a second one, and one by the time the goroutine has an
\* outcome to send, whether that outcome is a response, a transport error or a
\* missed deadline. Every Translate call posts at most one content request,
\* also when it returns an error.
C12_NoRetry ==
  \A c \in Callers :
    /\ req[c].attempts <= 1
    /\ (req[c].stage # "none" /\ req[c].task # "running") => req[c].attempts = 1
    /\ req[c].returned => req[c].attempts = 1
    /\ Len(ghost[c].content) <= 1

\* A content request returned "timed out" after its one attempt.
C12_Witness ==
  \E c \in Callers :
    /\ pc[c] = "returned" /\ req[c].stage = "content"
    /\ req[c].ret.err = Err("timeout")
    /\ req[c].attempts = 1 /\ ghost[c].content # <<>>

\* C13: over any sorted storage, isDirection answers true exactly when the
\* direction is an element of the storage it searched (the whole string, not a
\* prefix or a part of an element), and false when that storage is empty.
C13_ExactMembership ==
  \A c \in Callers :
    ghost[c].searched # "" =>
      /\ ghost[c].ok <=> Serves(Catalog(ghost[c].searched), loc[c].direction)
      /\ Catalog(ghost[c].searched) = <<>> => ~ghost[c].ok

\* isDirection answered false for "en-ru" over a storage of three elements that
\* holds "en-ruh", of which "en-ru" is a prefix.
C13_Witness ==
  \E c \in Callers :
    /\ ghost[c].searched # "" /\ ~ghost[c].ok
    /\ loc[c].direction = EnRu
    /\ Len(Catalog(ghost[c].searched)) = MaxList
    /\ Serves(Catalog(ghost[c].searched), EnRuh)

\* C14: the /event handler answers 201 exactly when the method is POST, the
\* body decodes and Translate returned a non-empty string with a nil error (the
\* string it answers with); for any other method, an undecodable body, a
\* Translate error or an empty result it answers 417.
C14_EventStatus ==
  \A c \in Callers :
    (pc[c] = "done" /\ inp[c].via = "event") =>
      /\ out[c].code \in {StatusCreated, StatusExpectationFailed}
      /\ out[c].code = StatusCreated <=>
           /\ inp[c].method = "POST" /\ inp[c].decodes /\ ghost[c].called
           /\ out[c].result # <<>> /\ out[c].err = Nil
      /\ (inp[c].method # "POST" \/ ~inp[c].decodes) => ~ghost[c].called

\* The handler answered 201 with the text of a translation.
C14_Witness ==
  \E c \in Callers :
    /\ pc[c] = "done" /\ inp[c].via = "event" /\ out[c].code = StatusCreated
    /\ ghost[c].content = <<"translate">> /\ out[c].result = <<"o", "k">>

\* C15: a dictionary article with a non-empty pos is rendered as its headword
\* immediately followed by "(pos)": for the served article go / v with the one
\* translation ir / v, a Lookup call that returns without error returns
\* "go(v)", the separator, "ir (v)".
C15_PosRendered ==
  \A c \in Callers :
    (pc[c] = "done" /\ ghost[c].content = <<"dictionary">> /\ out[c].err = Nil) =>
      out[c].result = <<"g", "o", "(", "v", ")">> \o strSep \o <<"i", "r", " ", "(", "v", ")">>

\* C16: a storage that holds a non-empty list is not changed by any later step:
\* not by a direct initLanguages call, not by the population inside
\* langsOnce.Do, not by any Translate call.
C16_PopulatedStaysPut ==
  [][/\ trLangs # <<>> => trLangs' = trLangs
     /\ dictLangs # <<>> => dictLangs' = dictLangs]_vars

\* The list is in ascending order, equal neighbours allowed.
IsSorted(l) == \A i \in 1..Len(l), j \in 1..Len(l) : i < j => ~StrLess(l[j], l[i])

\* The two lists hold the same strings, each as many times.
SameElements(a, b) ==
  /\ Len(a) = Len(b)
  /\ \A i \in 1..Len(a) :
       Cardinality({k \in 1..Len(a) : a[k] = a[i]}) = Cardinality({k \in 1..Len(b) : b[k] = a[i]})

\* The lists the directions endpoints serve in decodable documents.
ServedLists ==
  {b.doc.dirs : b \in {x \in Bodies("trLangs") \cup Bodies("dictLangs") : x.valid}}

\* C17 as stated: in every reachable state each storage is in ascending order
\* and holds no string twice, whatever list the upstream sent.
C17_SortedNoDuplicates ==
  \A name \in {"trLangs", "dictLangs"} :
    \A i \in 1..Len(Catalog(name)), j \in 1..Len(Catalog(name)) :
      i < j => StrLess(Catalog(name)[i], Catalog(name)[j])

\* C17 (amended): in every reachable state each storage is in ascending order,
\* equal neighbours allowed, whatever list the upstream sent; it is nil or
\* holds the strings of a served list, each as many times as that list does:
\* a direction the upstream repeats is kept twice.
C17_SortedKeepsRepeats ==
  \A name \in {"trLangs", "dictLangs"} :
    /\ IsSorted(Catalog(name))
    /\ \/ Catalog(name) = <<>>
       \/ \E l \in ServedLists : SameElements(Catalog(name), l)

\* Population from a list that was unsorted and repeated ru-pl.
C17_Witness == trLangs = <<EnRu, RuPl, RuPl>>

\* C18: the /info handler answers 201 with the author for GET and 417 for any
\* other method, whatever the state of the storages, and without an upstream
\* call: the step that answers posts no request and leaves the storages, the
\* once-gate and the request counts as they were.
C18_InfoAnswers ==
  [][\A c \in Callers :
       (inp[c].via # "info" /\ inp'[c].via = "info") =>
         /\ pc'[c] = "done"
         /\ out'[c].code =
              (IF inp'[c].method = "GET" THEN StatusCreated ELSE StatusExpectationFailed)
         /\ out'[c].code = StatusCreated => out'[c].result = Author
         /\ out'[c].code = StatusExpectationFailed => out'[c].result = <<>>
         /\ req'[c] = NoReq
         /\ UNCHANGED <<trLangs, dictLangs, langsOnce, langsReqs, req>>]_vars

\* /info answered 201 to a GET after a population that had failed, the storage
\* still nil.
C18_Witness ==
  \E c \in Callers :
    /\ inp[c].via = "info" /\ inp[c].method = "GET" /\ out[c].code = StatusCreated
    /\ initResult = "err" /\ trLangs = <<>>

\* C19: while one caller populates inside langsOnce.Do, every other caller that
\* has reached isDirection is held at the gate: it has searched nothing and
\* runs no request. A caller searches a storage only after the population has
\* finished, and an answer "unknown direction" is an answer about the storage
\* as the population left it: the direction is not an element of it.
C19_GateBlocksReaders ==
  /\ langsOnce.m # 0 =>
       /\ ~langsOnce.done
       /\ pc[langsOnce.m] \in {"select", "drain", "returned"}
       /\ \A c \in Callers \ {langsOnce.m} :
            /\ pc[c] \in {"idle", "once", "done"}
            /\ ghost[c].searched = ""
            /\ req[c] = NoReq
  /\ \A c \in Callers :
       /\ pc[c] = "lookup" => (langsOnce.done /\ langsOnce.m = 0)
       /\ ghost[c].searched # "" =>
            /\ langsOnce.done
            /\ ghost[c].ok <=> Serves(Catalog(ghost[c].searched), loc[c].direction)

\* A caller waits at the gate with a direction the translation service serves
\* while another caller's first directions request is in flight.
C19_Witness ==
  \E c \in Callers, o \in Callers :
    /\ c # o /\ langsOnce.m = o /\ req[o].stage = "init1" /\ req[o].task = "running"
    /\ pc[c] = "once" /\ loc[c].direction = EnRu

\* The payload without one leading space, if it has one.
DropOneSpace(p) == IF p # <<>> /\ Head(p) = " " THEN Tail(p) ELSE p

\* The string has a space after its first character or as its first one:
\* strings.SplitN(s, " ", 2) yields two elements.
HasSpace(p) == \E i \in 1..Len(p) : p[i] = " "

\* The payload without its leading and trailing spaces: what lies between its
\* first and its last character that is not a space.
Stripped(p) ==
  LET ns == {i \in 1..Len(p) : p[i] # " "}
  IN  IF ns = {} THEN <<>>
      ELSE SubSeq(p, CHOOSE i \in ns : \A k \in ns : i <= k,
                     CHOOSE j \in ns : \A k \in ns : k <= j)

\* C20 as stated: the payload Translate works on is the text after the
\* direction token less one leading space; the other leading and trailing
\* spaces stay and decide the intent: the call is a translation exactly when
\* that payload still has a space. Stated of a call where Translate has
\* computed them, where isDirection uses them and where the call ends.
C20_OneSpaceRemoved ==
  \A c \in Callers :
    (ghost[c].called /\ pc[c] \in {"once", "lookup", "done"} /\ loc[c].direction # <<>>) =>
      LET p == DropOneSpace(Payload(inp[c].text))
      IN  /\ loc[c].parsed = p
          /\ loc[c].isTr <=> HasSpace(p)

\* C20 (amended): the payload Translate works on is the text after the
\* direction token less all its leading and trailing spaces; those spaces take
\* no part in the intent: the call is a translation exactly when a space is
\* left inside the payload, between two characters that are not spaces.
\* Stated of a call where Translate has computed them, where isDirection uses
\* them and where the call ends.
C20_AllSpacesTrimmed ==
  \A c \in Callers :
    (ghost[c].called /\ pc[c] \in {"once", "lookup", "done"} /\ loc[c].direction # <<>>) =>
      LET p == Stripped(Payload(inp[c].text))
      IN  /\ loc[c].parsed = p
          /\ loc[c].isTr <=> HasSpace(p)

\* The text "en-ru", two spaces, one word: the call was a dictionary lookup.
C20_Witness ==
  \E c \in Callers :
    /\ inp[c].text = EnRu \o <<" ", " ", "h">>
    /\ loc[c].parsed = <<"h">> /\ ~loc[c].isTr
    /\ ghost[c].content = <<"dictionary">>

\* What the caller of a Translate call gets when the call produced nothing:
\* the empty string and a nil error, and 417 from the /event handler.
NothingFor(via) ==
  [result |-> <<>>, err |-> Nil,
   code |-> IF via = "event" THEN StatusExpectationFailed ELSE 0]

\* C21: when the translation endpoint answered 200 with an empty text list,
\* Translate returns the empty string with a nil error; what the caller gets
\* is the same as for a text without a direction token and for a direction the
\* searched storage does not hold.
C21_EmptyReplyIsNothing ==
  \A c \in Callers :
    (pc[c] = "done" /\ ghost[c].called) =>
      /\ ghost[c].texts = 0 =>
           /\ ghost[c].content = <<"translate">> /\ ghost[c].status = StatusOK
           /\ out[c].result = <<>> /\ out[c].err = Nil
      /\ (\/ ghost[c].texts = 0
          \/ loc[c].direction = <<>>
          \/ (ghost[c].searched # "" /\ ~ghost[c].ok)) => out[c] = NothingFor(inp[c].via)

\* The /event handler answered 417 after the translation endpoint had
\* answered 200 with an empty text list.
C21_Witness ==
  \E c \in Callers :
    /\ pc[c] = "done" /\ inp[c].via = "event" /\ ghost[c].texts = 0
    /\ ghost[c].status = StatusOK /\ out[c] = NothingFor("event")

\* C22: every call of request returns. Under RequestFairness, which lets the
\* upstream stay silent until the context is done, a frame that request has
\* opened is led to its return: the caller does not wait forever at the select
\* or at the receive from ec of the timeout case.
C22_RequestReturns ==
  \A c \in Callers :
    (req[c].stage # "none" /\ ~req[c].returned) ~> req[c].returned

\* request returned "timed out" for a call the upstream had not answered when
\* the timer fired: httpClient.Do ended with the deadline error.
C22_Witness ==
  \E c \in Callers :
    /\ req[c].returned /\ req[c].branch = "done" /\ req[c].timedFirst
    /\ req[c].sent.err = Err("deadline") /\ req[c].ret.err = Err("timeout")

\* C23: population is all-or-nothing. In the process whose only initLanguages
\* call is the one inside langsOnce.Do, both storages are nil before that call;
\* so once it has returned an error, both are nil still: no storage holds a
\* list while the population counts as failed.
C23_FailedPopulationLeavesNothing ==
  initResult = "err" => (trLangs = <<>> /\ dictLangs = <<>>)

\* C24: when request returns, the body of every response its goroutine got
\* from httpClient.Do without error has been closed, also when the select took
\* the timeout case although the response was there.
C24_BodyClosed ==
  \A c \in Callers :
    (req[c].returned /\ req[c].sent.err = Nil /\ req[c].sent.resp.status # 0) =>
      req[c].closed

====
